---------------------------- MODULE Spec2Model ----------------------------
(***************************************************************************)
(* The N-API binding of the Ghostty VT core (src/native/ghostty_vt.cc):    *)
(* the GhosttyTerminal object wrapper, its constructor, its six instance   *)
(* methods, its destructor, and the free function renderDemo.  Every       *)
(* handler is one atomic action (JavaScript runs them to completion on one *)
(* thread); the native calls a handler makes are recorded, in order, in    *)
(* nativeCalls.  The core behind ghostty_vt.h is not part of the binding;  *)
(* what the binding can observe of it (a handle or null, a status, a byte  *)
(* buffer, a flag) is modelled by the Native... definitions below.         *)
(***************************************************************************)
EXTENDS Integers, Sequences, FiniteSets, TLC

(***************************************************************************)
(* Bounds of the model.                                                    *)
(***************************************************************************)
\* longest byte stream one terminal object delivers to the core
MaxStream == 2
\* the core's feed returns an int; the statuses 0..MaxNativeStatus are tried
MaxNativeStatus == 3

\* two JavaScript terminal objects, enough for one to act beside another
Objects == {"t1", "t2"}
\* the pointer values ghostty_vt_terminal_new can return; NULL is nullptr
Handles == {1, 2}
NULL == 0

(***************************************************************************)
(* JavaScript values as the binding sees them: a type tag, a number (or    *)
(* NaN), and for a Buffer its bytes, for a String its UTF-16 code units.   *)
(***************************************************************************)
Num(n) == [t |-> "number", n |-> n, nan |-> FALSE, s |-> <<>>]
NaN == [t |-> "number", n |-> 0, nan |-> TRUE, s |-> <<>>]
Buf(s) == [t |-> "buffer", n |-> 0, nan |-> FALSE, s |-> s]
Str(s) == [t |-> "string", n |-> 0, nan |-> FALSE, s |-> s]
Undefined == [t |-> "undefined", n |-> 0, nan |-> FALSE, s |-> <<>>]

\* info[i]: an index past info.Length() reads as undefined
Arg(info, i) == IF i <= Len(info) THEN info[i] ELSE Undefined
IsNumber(v) == v.t = "number"
IsBuffer(v) == v.t = "buffer"
IsString(v) == v.t = "string"

\* static_cast<uint16_t>(Number::Uint32Value()): ToUint32 is the integer
\* modulo 2^32 (NaN gives 0) and the cast keeps the low 16 bits; 2^16
\* divides 2^32, so the two together are the integer modulo 2^16.
Uint16OfUint32Value(v) == IF v.nan THEN 0 ELSE v.n % 65536

\* Number::Int32Value(): ToInt32, NaN gives 0.  The integers of the model
\* are 32-bit already, so an integer is its own ToInt32.
Int32Value(v) == IF v.nan THEN 0 ELSE v.n

IsHighSurrogate(u) == u >= 55296 /\ u <= 56319
IsLowSurrogate(u) == u >= 56320 /\ u <= 57343

\* the UTF-8 bytes of one code point
Utf8OfCodePoint(c) ==
  IF c < 128 THEN <<c>>
  ELSE IF c < 2048 THEN <<192 + (c \div 64), 128 + (c % 64)>>
  ELSE IF c < 65536
    THEN <<224 + (c \div 4096), 128 + ((c \div 64) % 64), 128 + (c % 64)>>
  ELSE <<240 + (c \div 262144), 128 + ((c \div 4096) % 64),
         128 + ((c \div 64) % 64), 128 + (c % 64)>>

\* String::Utf8Value(): the UTF-8 encoding of the code units; a surrogate
\* pair is one code point, a lone surrogate is written as U+FFFD.
RECURSIVE Utf8Value(_)
Utf8Value(u) ==
  IF u = <<>> THEN <<>>
  ELSE IF Len(u) >= 2 /\ IsHighSurrogate(u[1]) /\ IsLowSurrogate(u[2])
    THEN Utf8OfCodePoint(65536 + (u[1] - 55296) * 1024 + (u[2] - 56320))
           \o Utf8Value(SubSeq(u, 3, Len(u)))
  ELSE IF IsHighSurrogate(u[1]) \/ IsLowSurrogate(u[1])
    THEN Utf8OfCodePoint(65533) \o Utf8Value(Tail(u))
  ELSE Utf8OfCodePoint(u[1]) \o Utf8Value(Tail(u))

\* the first len bytes at ptr
Bytes(data, len) == SubSeq(data, 1, len)

\* std::strlen: the number of bytes before the first NUL
RECURSIVE Strlen(_)
Strlen(s) == IF s = <<>> \/ s[1] = 0 THEN 0 ELSE 1 + Strlen(Tail(s))

\* the literal RenderDemo feeds, as it stands in the source, with its NUL
demo ==
  << 71, 104, 111, 115, 116, 116, 121, 32, 86, 84, 32, 99, 111, 114, 101, 32,
     119, 105, 114, 101, 100, 32, 195, 162, 197, 147, 226, 128, 166, 10, 36, 32,
     112, 114, 105, 110, 116, 102, 32, 39, 104, 101, 108, 108, 111, 32, 102, 114,
     111, 109, 32, 103, 104, 111, 115, 116, 116, 121, 92, 110, 39, 10, 104, 101,
     108, 108, 111, 32, 102, 114, 111, 109, 32, 103, 104, 111, 115, 116, 116, 121,
     10, 0 >>

\* std::strlen(demo), and the bytes RenderDemo passes to the core
demoLen == Strlen(demo)
demoBytes == Bytes(demo, demoLen)

(***************************************************************************)
(* What a handler returns to JavaScript.                                   *)
(***************************************************************************)
Ret(kind, n, s, msg, valid, col, row) ==
  [kind |-> kind, n |-> n, s |-> s, msg |-> msg,
   valid |-> valid, col |-> col, row |-> row]
RetNone == Ret("none", 0, <<>>, "", FALSE, 0, 0)
RetNumber(n) == Ret("number", n, <<>>, "", FALSE, 0, 0)
\* a string made from the bytes of a std::string
RetString(s) == Ret("string", 0, s, "", FALSE, 0, 0)
\* a string made from a literal
RetLiteral(msg) == Ret("string", 0, <<>>, msg, FALSE, 0, 0)
RetUndefined == Ret("undefined", 0, <<>>, "", FALSE, 0, 0)
RetObject(valid, col, row) == Ret("object", 0, <<>>, "", valid, col, row)
RetInstance == Ret("instance", 0, <<>>, "", FALSE, 0, 0)
\* a pending JavaScript exception
RetThrow(class, msg) == Ret(class, 0, <<>>, msg, FALSE, 0, 0)

\* one call of a function of ghostty_vt.h: its name, the handle passed (for
\* new, the handle returned), the bytes passed or returned, and two integers:
\* cols and rows (new, resize), the length and the status returned when the
\* handler reads it (feed), delta (scroll), the pointer and the length of the
\* buffer (dump, bytes_free), the column and row written (cursor_position)
NCall(fn, h, bytes, a, b) ==
  [fn |-> fn, h |-> h, bytes |-> bytes, a |-> a, b |-> b]

(***************************************************************************)
(* The core as the binding observes it.                                    *)
(***************************************************************************)
\* ghostty_vt_terminal_new: null (no memory, or a dimension of 0), or a
\* handle that is not the handle of a terminal still allocated
NativeNew(cols, rows, live) ==
  {NULL} \cup (IF cols > 0 /\ rows > 0 THEN Handles \ live ELSE {})

\* ghostty_vt_terminal_feed returns an int the binding passes on unread
NativeFeedStatuses == 0 .. MaxNativeStatus

\* ghostty_vt_terminal_resize: 0, or 2 for a dimension of 0
NativeResize(cols, rows) == IF cols > 0 /\ rows > 0 THEN 0 ELSE 2

\* ghostty_vt_terminal_scroll_viewport clamps and returns 0
NativeScroll(delta) == 0

\* ghostty_vt_terminal_dump_viewport: a null pointer, an empty buffer, a
\* buffer of text, or a null pointer with a stale length
NativeDumps ==
  { [ptr |-> 0, len |-> 0, data |-> <<>>],
    [ptr |-> 0, len |-> 1, data |-> <<>>],
    [ptr |-> 1, len |-> 0, data |-> <<>>],
    [ptr |-> 1, len |-> 2, data |-> <<104, 105>>] }

\* ghostty_vt_terminal_cursor_position: true for a live terminal, with the
\* cursor's column and row
NativeCursors ==
  { [ok |-> TRUE, col |-> 0, row |-> 0], [ok |-> TRUE, col |-> 5, row |-> 2] }

(***************************************************************************)
(* State.                                                                  *)
(***************************************************************************)
VARIABLES
  phase,        \* per object: "unborn", "alive" (constructed), "gone" (destroyed)
  terminal_,    \* per object: the field terminal_, a handle or NULL
  obtained,     \* per object: what ghostty_vt_terminal_new returned to its constructor
  frees,        \* per object: how often it called ghostty_vt_terminal_free
  delivered,    \* per object: the bytes it passed to ghostty_vt_terminal_feed, in order
  fed,          \* per object: the bytes of the Buffers and Strings its live feeds were given
  allocated,    \* the core's terminals allocated and not freed
  buffers,      \* dump buffers returned by the core and not yet freed
  last,         \* the handler that ran last: op, obj, info (its arguments), ret, was (terminal_ before)
  nativeCalls   \* the native calls the last handler made, in order

vars == <<phase, terminal_, obtained, frees, delivered, fed, allocated,
          buffers, last, nativeCalls>>

Last(op, o, info, ret, was) ==
  [op |-> op, obj |-> o, info |-> info, ret |-> ret, was |-> was]

Init ==
  /\ phase = [o \in Objects |-> "unborn"]
  /\ terminal_ = [o \in Objects |-> NULL]
  /\ obtained = [o \in Objects |-> NULL]
  /\ frees = [o \in Objects |-> 0]
  /\ delivered = [o \in Objects |-> <<>>]
  /\ fed = [o \in Objects |-> <<>>]
  /\ allocated = {}
  /\ buffers = 0
  /\ last = Last("init", "t1", <<>>, RetNone, NULL)
  /\ nativeCalls = <<>>


(***************************************************************************)
(* Inputs.                                                                 *)
(***************************************************************************)
\* new Terminal(...) / createTerminal(...) / resize(...) argument lists:
\* missing and non-numeric arguments, and dimensions that are 0, ordinary,
\* NaN, and past the uint16 range (65536 = 2^16, 65538 = 2^16 + 2)
DimInfos ==
  { <<>>, <<Num(2)>>, <<Num(2), Undefined>>,
    <<Num(2), Num(2)>>, <<Num(0), Num(2)>>, <<Num(2), Num(0)>>,
    <<NaN, Num(2)>>, <<Num(65538), Num(2)>>, <<Num(2), Num(65536)>> }

\* feed(...) argument lists: none, a non-Buffer non-String, an empty and a
\* one-byte Buffer, an empty String
FeedInfos ==
  { <<>>, <<Undefined>>, <<Num(65)>>,
    <<Buf(<<>>)>>, <<Buf(<<65>>)>>, <<Str(<<>>)>> }

\* feed(...) argument lists that reach the core: Buffers (empty, with a NUL
\* byte, of two bytes) and Strings (empty, ASCII, a two-byte code point)
ByteInfos ==
  { <<Buf(<<>>)>>, <<Buf(<<65>>)>>, <<Buf(<<0>>)>>, <<Buf(<<65, 0>>)>>,
    <<Str(<<>>)>>, <<Str(<<66>>)>>, <<Str(<<233>>)>>, <<Str(<<66, 66>>)>> }

\* scrollViewport(...) argument lists
ScrollInfos ==
  { <<>>, <<Undefined>>, <<Num(0)>>, <<Num(-1)>>, <<Num(2147483647)>>, <<NaN>> }

\* arguments of the methods that read none of them
AnyInfos == { <<>>, <<Num(1)>> }

(***************************************************************************)
(* Handlers.                                                               *)
(***************************************************************************)
\* a handler that returns ret without calling the core
Return(op, o, info, ret) ==
  /\ last' = Last(op, o, info, ret, terminal_[o])
  /\ nativeCalls' = <<>>
  /\ UNCHANGED <<phase, terminal_, obtained, frees, delivered, fed,
                 allocated, buffers>>

\* The constructor without its test of the pointer ghostty_vt_terminal_new
\* returned: a null terminal is handed to JavaScript as a good instance.
GhosttyTerminalNoNullCheck(o, info) ==
  /\ phase[o] = "unborn"
  /\ phase' = [phase EXCEPT ![o] = "alive"]
  /\ UNCHANGED <<frees, delivered, fed, buffers>>
  /\ IF Len(info) < 2 \/ ~IsNumber(Arg(info, 1)) \/ ~IsNumber(Arg(info, 2))
       THEN /\ terminal_' = [terminal_ EXCEPT ![o] = NULL]
            /\ UNCHANGED <<obtained, allocated>>
            /\ nativeCalls' = <<>>
            /\ last' = Last("new", o, info,
                            RetThrow("TypeError", "Expected cols, rows"), NULL)
       ELSE LET cols == Uint16OfUint32Value(Arg(info, 1))
                rows == Uint16OfUint32Value(Arg(info, 2))
            IN \E h \in NativeNew(cols, rows, allocated) :
                 /\ terminal_' = [terminal_ EXCEPT ![o] = h]
                 /\ obtained' = [obtained EXCEPT ![o] = h]
                 /\ allocated' = allocated \cup ({h} \ {NULL})
                 /\ nativeCalls' =
                      <<NCall("ghostty_vt_terminal_new", h, <<>>, cols, rows)>>
                 /\ last' = Last("new", o, info, RetInstance, NULL)

\* GhosttyTerminal::GhosttyTerminal
GhosttyTerminal(o, info) ==
  /\ phase[o] = "unborn"
  /\ phase' = [phase EXCEPT ![o] = "alive"]
  /\ UNCHANGED <<frees, delivered, fed, buffers>>
  /\ IF Len(info) < 2 \/ ~IsNumber(Arg(info, 1)) \/ ~IsNumber(Arg(info, 2))
       THEN /\ terminal_' = [terminal_ EXCEPT ![o] = NULL]
            /\ UNCHANGED <<obtained, allocated>>
            /\ nativeCalls' = <<>>
            /\ last' = Last("new", o, info,
                            RetThrow("TypeError", "Expected cols, rows"), NULL)
       ELSE LET cols == Uint16OfUint32Value(Arg(info, 1))
                rows == Uint16OfUint32Value(Arg(info, 2))
            IN \E h \in NativeNew(cols, rows, allocated) :
                 /\ terminal_' = [terminal_ EXCEPT ![o] = h]
                 /\ obtained' = [obtained EXCEPT ![o] = h]
                 /\ allocated' = allocated \cup ({h} \ {NULL})
                 /\ nativeCalls' =
                      <<NCall("ghostty_vt_terminal_new", h, <<>>, cols, rows)>>
                 /\ last' = Last("new", o, info,
                                 IF h = NULL
                                   THEN RetThrow("Error",
                                          "Failed to create Ghostty VT terminal")
                                   ELSE RetInstance,
                                 NULL)

\* GhosttyTerminal::Create: constructor.New({info[0], info[1]})
Create(o, info) == GhosttyTerminal(o, <<Arg(info, 1), Arg(info, 2)>>)

\* FreeInternal without "terminal_ = nullptr": the handle stays in the field
\* after it was released.
FreeInternalKeepsHandle(o) ==
  IF terminal_[o] # NULL
    THEN /\ nativeCalls' =
              <<NCall("ghostty_vt_terminal_free", terminal_[o], <<>>, 0, 0)>>
         /\ allocated' = allocated \ {terminal_[o]}
         /\ frees' = [frees EXCEPT ![o] = @ + 1]
         /\ UNCHANGED terminal_
    ELSE /\ nativeCalls' = <<>>
         /\ UNCHANGED <<allocated, frees, terminal_>>

\* FreeInternal with terminal_ a static member, like constructor: one field
\* for all the objects.
FreeInternalStatic(o) ==
  IF terminal_[o] # NULL
    THEN /\ nativeCalls' =
              <<NCall("ghostty_vt_terminal_free", terminal_[o], <<>>, 0, 0)>>
         /\ allocated' = allocated \ {terminal_[o]}
         /\ frees' = [frees EXCEPT ![o] = @ + 1]
         /\ terminal_' = [p \in Objects |-> NULL]
    ELSE /\ nativeCalls' = <<>>
         /\ UNCHANGED <<allocated, frees, terminal_>>

\* GhosttyTerminal::FreeInternal
FreeInternal(o) ==
  IF terminal_[o] # NULL
    THEN /\ nativeCalls' =
              <<NCall("ghostty_vt_terminal_free", terminal_[o], <<>>, 0, 0)>>
         /\ allocated' = allocated \ {terminal_[o]}
         /\ frees' = [frees EXCEPT ![o] = @ + 1]
         /\ terminal_' = [terminal_ EXCEPT ![o] = NULL]
    ELSE /\ nativeCalls' = <<>>
         /\ UNCHANGED <<allocated, frees, terminal_>>

\* GhosttyTerminal::Free
Free(o, info) ==
  /\ phase[o] = "alive"
  /\ FreeInternal(o)
  /\ last' = Last("free", o, info, RetUndefined, terminal_[o])
  /\ UNCHANGED <<phase, obtained, delivered, fed, buffers>>

\* GhosttyTerminal::~GhosttyTerminal, run when the object is collected
Destructor(o) ==
  /\ phase[o] = "alive"
  /\ phase' = [phase EXCEPT ![o] = "gone"]
  /\ FreeInternal(o)
  /\ last' = Last("~GhosttyTerminal", o, <<>>, RetNone, terminal_[o])
  /\ UNCHANGED <<obtained, delivered, fed, buffers>>

\* The call of the core with std::strlen(data) for the length, as RenderDemo
\* measures its literal: the bytes from the first NUL on are not passed.
FeedNativeStrlen(o, info, data, len) ==
  /\ Len(delivered[o]) + len <= MaxStream
  /\ \E result \in NativeFeedStatuses :
       /\ nativeCalls' = <<NCall("ghostty_vt_terminal_feed", terminal_[o],
                                 Bytes(data, Strlen(data)), Strlen(data), result)>>
       /\ delivered' = [delivered EXCEPT ![o] = @ \o Bytes(data, Strlen(data))]
       /\ last' = Last("feed", o, info, RetNumber(result), terminal_[o])
  /\ fed' = [fed EXCEPT ![o] = @ \o (IF IsBuffer(info[1]) THEN info[1].s
                                      ELSE Utf8Value(info[1].s))]
  /\ UNCHANGED <<phase, terminal_, obtained, frees, allocated, buffers>>

\* the call of ghostty_vt_terminal_feed(terminal_, data, len) in Feed and
\* the return of its result
FeedNative(o, info, data, len) ==
  /\ Len(delivered[o]) + len <= MaxStream
  /\ \E result \in NativeFeedStatuses :
       /\ nativeCalls' = <<NCall("ghostty_vt_terminal_feed", terminal_[o],
                                 Bytes(data, len), len, result)>>
       /\ delivered' = [delivered EXCEPT ![o] = @ \o Bytes(data, len)]
       /\ last' = Last("feed", o, info, RetNumber(result), terminal_[o])
  /\ fed' = [fed EXCEPT ![o] = @ \o (IF IsBuffer(info[1]) THEN info[1].s
                                      ELSE Utf8Value(info[1].s))]
  /\ UNCHANGED <<phase, terminal_, obtained, frees, allocated, buffers>>

\* Feed with its two first tests in the other order: the arguments are
\* looked at before the handle.
FeedChecksArgumentsFirst(o, info) ==
  /\ phase[o] = "alive"
  /\ IF Len(info) < 1 THEN Return("feed", o, info, RetNumber(2))
     ELSE IF terminal_[o] = NULL THEN Return("feed", o, info, RetNumber(1))
     ELSE IF IsBuffer(info[1])
       THEN FeedNative(o, info, info[1].s, Len(info[1].s))
     ELSE IF IsString(info[1])
       THEN LET data == Utf8Value(info[1].s)
            IN FeedNative(o, info, data, Len(data))
     ELSE Return("feed", o, info, RetNumber(3))

\* GhosttyTerminal::Feed
Feed(o, info) ==
  /\ phase[o] = "alive"
  /\ IF terminal_[o] = NULL THEN Return("feed", o, info, RetNumber(1))
     ELSE IF Len(info) < 1 THEN Return("feed", o, info, RetNumber(2))
     ELSE IF IsBuffer(info[1])
       THEN FeedNative(o, info, info[1].s, Len(info[1].s))
     ELSE IF IsString(info[1])
       THEN LET data == Utf8Value(info[1].s)
            IN FeedNative(o, info, data, Len(data))
     ELSE Return("feed", o, info, RetNumber(3))

\* GhosttyTerminal::Resize
Resize(o, info) ==
  /\ phase[o] = "alive"
  /\ IF terminal_[o] = NULL THEN Return("resize", o, info, RetNumber(1))
     ELSE IF Len(info) < 2 \/ ~IsNumber(info[1]) \/ ~IsNumber(info[2])
       THEN Return("resize", o, info, RetNumber(2))
     ELSE LET cols == Uint16OfUint32Value(info[1])
              rows == Uint16OfUint32Value(info[2])
              result == NativeResize(cols, rows)
          IN /\ nativeCalls' = <<NCall("ghostty_vt_terminal_resize",
                                       terminal_[o], <<>>, cols, rows)>>
             /\ last' = Last("resize", o, info, RetNumber(result), terminal_[o])
             /\ UNCHANGED <<phase, terminal_, obtained, frees, delivered, fed,
                            allocated, buffers>>

\* ScrollViewport refusing a negative delta as an invalid argument.
ScrollViewportRejectsNegative(o, info) ==
  /\ phase[o] = "alive"
  /\ IF terminal_[o] = NULL THEN Return("scrollViewport", o, info, RetNumber(1))
     ELSE IF Len(info) < 1 \/ ~IsNumber(info[1]) \/ Int32Value(info[1]) < 0
       THEN Return("scrollViewport", o, info, RetNumber(2))
     ELSE LET delta == Int32Value(info[1])
              result == NativeScroll(delta)
          IN /\ nativeCalls' = <<NCall("ghostty_vt_terminal_scroll_viewport",
                                       terminal_[o], <<>>, delta, 0)>>
             /\ last' = Last("scrollViewport", o, info, RetNumber(result),
                             terminal_[o])
             /\ UNCHANGED <<phase, terminal_, obtained, frees, delivered, fed,
                            allocated, buffers>>

\* GhosttyTerminal::ScrollViewport
ScrollViewport(o, info) ==
  /\ phase[o] = "alive"
  /\ IF terminal_[o] = NULL THEN Return("scrollViewport", o, info, RetNumber(1))
     ELSE IF Len(info) < 1 \/ ~IsNumber(info[1])
       THEN Return("scrollViewport", o, info, RetNumber(2))
     ELSE LET delta == Int32Value(info[1])
              result == NativeScroll(delta)
          IN /\ nativeCalls' = <<NCall("ghostty_vt_terminal_scroll_viewport",
                                       terminal_[o], <<>>, delta, 0)>>
             /\ last' = Last("scrollViewport", o, info, RetNumber(result),
                             terminal_[o])
             /\ UNCHANGED <<phase, terminal_, obtained, frees, delivered, fed,
                            allocated, buffers>>

\* the dump buffers a handler's native calls leave unfreed
RECURSIVE Unfreed(_)
Unfreed(calls) ==
  IF calls = <<>> THEN 0
  ELSE (IF Head(calls).fn = "ghostty_vt_terminal_dump_viewport" THEN 1
        ELSE IF Head(calls).fn = "ghostty_vt_bytes_free" THEN -1
        ELSE 0) + Unfreed(Tail(calls))

\* the std::string both dumps build from the returned buffer
Output(viewport, empty) ==
  IF viewport.ptr # 0 /\ viewport.len > 0
    THEN Bytes(viewport.data, viewport.len)
    ELSE empty

\* DumpViewport with ghostty_vt_bytes_free moved into the branch that copies
\* the text: a null or empty buffer is not given back.
DumpViewportFreesInsideIf(o, info) ==
  /\ phase[o] = "alive"
  /\ IF terminal_[o] = NULL THEN Return("dumpViewport", o, info, RetString(<<>>))
     ELSE \E viewport \in NativeDumps :
            /\ nativeCalls' =
                 << NCall("ghostty_vt_terminal_dump_viewport", terminal_[o],
                          viewport.data, viewport.ptr, viewport.len) >>
                 \o (IF viewport.ptr # 0 /\ viewport.len > 0
                       THEN << NCall("ghostty_vt_bytes_free", NULL,
                                     viewport.data, viewport.ptr, viewport.len) >>
                       ELSE <<>>)
            /\ buffers' = buffers + Unfreed(nativeCalls')
            /\ last' = Last("dumpViewport", o, info,
                            RetString(Output(viewport, <<>>)), terminal_[o])
            /\ UNCHANGED <<phase, terminal_, obtained, frees, delivered, fed,
                           allocated>>

\* GhosttyTerminal::DumpViewport
DumpViewport(o, info) ==
  /\ phase[o] = "alive"
  /\ IF terminal_[o] = NULL THEN Return("dumpViewport", o, info, RetString(<<>>))
     ELSE \E viewport \in NativeDumps :
            /\ nativeCalls' =
                 << NCall("ghostty_vt_terminal_dump_viewport", terminal_[o],
                          viewport.data, viewport.ptr, viewport.len),
                    NCall("ghostty_vt_bytes_free", NULL,
                          viewport.data, viewport.ptr, viewport.len) >>
            /\ buffers' = buffers + Unfreed(nativeCalls')
            /\ last' = Last("dumpViewport", o, info,
                            RetString(Output(viewport, <<>>)), terminal_[o])
            /\ UNCHANGED <<phase, terminal_, obtained, frees, delivered, fed,
                           allocated>>

\* CursorPosition taking the column for the flag: valid is set from col.
CursorPositionValidFromCol(o, info) ==
  /\ phase[o] = "alive"
  /\ IF terminal_[o] = NULL
       THEN Return("cursorPosition", o, info, RetObject(FALSE, 0, 0))
     ELSE \E c \in NativeCursors :
            /\ nativeCalls' = <<NCall("ghostty_vt_terminal_cursor_position",
                                      terminal_[o], <<>>, c.col, c.row)>>
            /\ last' = Last("cursorPosition", o, info,
                            RetObject(c.col # 0, c.col, c.row), terminal_[o])
            /\ UNCHANGED <<phase, terminal_, obtained, frees, delivered, fed,
                           allocated, buffers>>

\* GhosttyTerminal::CursorPosition
CursorPosition(o, info) ==
  /\ phase[o] = "alive"
  /\ IF terminal_[o] = NULL
       THEN Return("cursorPosition", o, info, RetObject(FALSE, 0, 0))
     ELSE \E c \in NativeCursors :
            /\ nativeCalls' = <<NCall("ghostty_vt_terminal_cursor_position",
                                      terminal_[o], <<>>, c.col, c.row)>>
            /\ last' = Last("cursorPosition", o, info,
                            RetObject(c.ok, c.col, c.row), terminal_[o])
            /\ UNCHANGED <<phase, terminal_, obtained, frees, delivered, fed,
                           allocated, buffers>>

\* RenderDemo
RenderDemo ==
  /\ UNCHANGED <<phase, terminal_, obtained, frees, delivered, fed>>
  /\ \E terminal \in NativeNew(80, 24, allocated) :
       IF terminal = NULL
         THEN /\ nativeCalls' =
                   <<NCall("ghostty_vt_terminal_new", NULL, <<>>, 80, 24)>>
              /\ last' = Last("renderDemo", "none", <<>>,
                              RetLiteral("Failed to initialize Ghostty VT terminal."),
                              NULL)
              /\ UNCHANGED <<allocated, buffers>>
         ELSE \E viewport \in NativeDumps :
                /\ nativeCalls' =
                     << NCall("ghostty_vt_terminal_new", terminal, <<>>, 80, 24),
                        NCall("ghostty_vt_terminal_feed", terminal,
                              demoBytes, demoLen, 0),
                        NCall("ghostty_vt_terminal_dump_viewport", terminal,
                              viewport.data, viewport.ptr, viewport.len),
                        NCall("ghostty_vt_bytes_free", NULL,
                              viewport.data, viewport.ptr, viewport.len),
                        NCall("ghostty_vt_terminal_free", terminal, <<>>, 0, 0) >>
                /\ allocated' = (allocated \cup {terminal}) \ {terminal}
                /\ buffers' = buffers + Unfreed(nativeCalls')
                /\ last' = Last("renderDemo", "none", <<>>,
                                IF viewport.ptr # 0 /\ viewport.len > 0
                                  THEN RetString(Output(viewport, <<>>))
                                  ELSE RetLiteral("(no viewport output)"),
                                NULL)

Next ==
  \/ \E o \in Objects, info \in DimInfos : GhosttyTerminal(o, info)
  \/ \E o \in Objects, info \in DimInfos : Create(o, info)
  \/ \E o \in Objects, info \in FeedInfos : Feed(o, info)
  \/ \E o \in Objects, info \in DimInfos : Resize(o, info)
  \/ \E o \in Objects, info \in ScrollInfos : ScrollViewport(o, info)
  \/ \E o \in Objects, info \in AnyInfos : DumpViewport(o, info)
  \/ \E o \in Objects, info \in AnyInfos : CursorPosition(o, info)
  \/ \E o \in Objects, info \in AnyInfos : Free(o, info)
  \/ \E o \in Objects : Destructor(o)
  \/ RenderDemo

Spec == Init /\ [][Next]_vars

\* the same handlers, with the feeds that reach the core drawn from ByteInfos
NextFeed ==
  \/ \E o \in Objects : GhosttyTerminal(o, <<Num(2), Num(2)>>)
  \/ \E o \in Objects, info \in ByteInfos : Feed(o, info)
  \/ \E o \in Objects : Free(o, <<>>)

SpecFeed == Init /\ [][NextFeed]_vars


(***************************************************************************)
(* Properties.                                                             *)
(***************************************************************************)
Methods == {"feed", "resize", "scrollViewport", "dumpViewport", "cursorPosition"}

\* the indices of the last handler's native calls of fn
CallsOf(fn) == {i \in 1 .. Len(nativeCalls) : nativeCalls[i].fn = fn}

\* the result a method gives for a null handle
InvalidResult(op) ==
  IF op = "dumpViewport" THEN RetString(<<>>)
  ELSE IF op = "cursorPosition" THEN RetObject(FALSE, 0, 0)
  ELSE RetNumber(1)

\* C1: free is idempotent.  Over free() calls and the destruction, an object
\* calls ghostty_vt_terminal_free at most once, only for the handle its
\* constructor obtained, exactly once by the time it is destroyed if the
\* construction gave a handle, and never with a null handle; free() returns
\* undefined, and on a handle already null it calls nothing.
FreeIsIdempotent ==
  /\ \A o \in Objects :
       /\ frees[o] <= 1
       /\ frees[o] = 1 => obtained[o] # NULL /\ terminal_[o] = NULL
       /\ phase[o] = "gone" => frees[o] = (IF obtained[o] # NULL THEN 1 ELSE 0)
  /\ \A i \in CallsOf("ghostty_vt_terminal_free") :
       /\ nativeCalls[i].h # NULL
       /\ last.op \in {"free", "~GhosttyTerminal"}
            => nativeCalls[i].h = obtained[last.obj] /\ Len(nativeCalls) = 1
  /\ last.op = "free" =>
       /\ last.ret = RetUndefined
       /\ last.was = NULL => nativeCalls = <<>>

\* C1's case: an object that was freed by free() and then destroyed; the
\* destructor found the handle null and the one release stands.
FreedThenDestroyed ==
  /\ last.op = "~GhosttyTerminal"
  /\ last.was = NULL
  /\ frees[last.obj] = 1
  /\ nativeCalls = <<>>

\* C2: on a null handle (after free(), or when the constructor obtained no
\* handle) every method returns its invalid result whatever its arguments
\* are: 1 for feed, resize and scrollViewport, the empty string for
\* dumpViewport, {valid: false, col: 0, row: 0} for cursorPosition; it calls
\* no native function and the handle stays null.
NullHandleGivesInvalidResult ==
  (last.op \in Methods /\ last.was = NULL) =>
    /\ last.ret = InvalidResult(last.op)
    /\ nativeCalls = <<>>
    /\ terminal_[last.obj] = NULL

\* C2's case: feed() with no argument on a terminal that was freed.
FeedWithoutArgumentAfterFree ==
  /\ last.op = "feed"
  /\ last.info = <<>>
  /\ last.was = NULL
  /\ frees[last.obj] = 1


\* how a feed call ended: one of the four outcomes the status is to tell
\* apart, or an error of the core
FeedOutcome(l) ==
  IF l.was = NULL THEN "invalid-handle"
  ELSE IF Len(l.info) < 1 THEN "empty-input"
  ELSE IF ~(IsBuffer(l.info[1]) \/ IsString(l.info[1]))
    THEN "unsupported-input-type"
  ELSE IF l.info[1].s = <<>> THEN "empty-input"
  ELSE IF l.ret.n = 0 THEN "ok"
  ELSE "core-error"

FourOutcomes == {"ok", "invalid-handle", "empty-input", "unsupported-input-type"}

\* C3: the status of feed tells the four outcomes ok, invalid-handle,
\* empty-input and unsupported-input-type apart: two feed calls (here, one
\* made right after the other) that end in different outcomes of the four
\* return different statuses, an empty Buffer or String and every status of
\* the core included.
FeedStatusTellsOutcome ==
  [][ ( /\ last.op = "feed" /\ last'.op = "feed"
        /\ FeedOutcome(last) \in FourOutcomes
        /\ FeedOutcome(last') \in FourOutcomes
        /\ FeedOutcome(last) # FeedOutcome(last') )
      => last.ret.n # last'.ret.n ]_vars

\* a dimension asked for that is 0 or past the uint16 range
BadDimension(v) == IsNumber(v) /\ ~v.nan /\ (v.n = 0 \/ v.n > 65535)
AsksBadDimensions(info) ==
  /\ Len(info) >= 2
  /\ IsNumber(info[1]) /\ IsNumber(info[2])
  /\ BadDimension(info[1]) \/ BadDimension(info[2])

\* C4: a dimension of 0 or above 65535 on create and on resize is refused:
\* the constructor yields no usable terminal and resize on a live terminal
\* does not return 0; a value above 65535 is never taken modulo 65536.
BadDimensionsAreRefused ==
  /\ (last.op = "new" /\ AsksBadDimensions(last.info))
       => terminal_[last.obj] = NULL
  /\ (last.op = "resize" /\ last.was # NULL /\ AsksBadDimensions(last.info))
       => last.ret.n # 0

\* C5: scrollViewport fails only on an invalid handle: on a live terminal
\* every call returns 0 whatever the argument is, and a status other than 0
\* is returned only when the handle is null.
ScrollFailsOnlyOnNullHandle ==
  last.op = "scrollViewport" => (last.ret.n # 0 <=> last.was = NULL)

\* C5 as amended: on a live terminal scrollViewport returns 0 for every
\* numeric delta, which it passes to the core once as an int32 (NaN as 0);
\* it returns a status other than 0 only for a null handle (1) or for a
\* delta that is missing or not a number (2), and then calls nothing.
ScrollFailsOnlyOnNullHandleOrNoNumber ==
  last.op = "scrollViewport" =>
    IF last.was = NULL THEN last.ret = RetNumber(1) /\ nativeCalls = <<>>
    ELSE IF Len(last.info) >= 1 /\ IsNumber(last.info[1])
      THEN /\ last.ret = RetNumber(0)
           /\ nativeCalls =
                <<NCall("ghostty_vt_terminal_scroll_viewport", last.was, <<>>,
                        Int32Value(last.info[1]), 0)>>
      ELSE last.ret = RetNumber(2) /\ nativeCalls = <<>>

\* C5's case: a live terminal scrolled by a negative delta.
ScrolledBackOnLive ==
  /\ last.op = "scrollViewport"
  /\ last.was # NULL
  /\ last.info = <<Num(-1)>>
  /\ last.ret.n = 0


\* the constructor was given fewer than two numeric arguments
LacksDimensions(info) ==
  Len(info) < 2 \/ ~IsNumber(Arg(info, 1)) \/ ~IsNumber(Arg(info, 2))

\* C6: a construction that fails leaves no partly usable instance.  With
\* fewer than two numeric arguments the constructor throws a TypeError and
\* calls nothing; when ghostty_vt_terminal_new returns null it throws an
\* Error; in both cases the object owns no terminal, and every later method
\* on it returns its invalid result with no native call, and neither free()
\* nor the destructor releases anything.
FailedConstructionOwnsNothing ==
  /\ last.op = "new" =>
       /\ LacksDimensions(last.info) =>
            last.ret.kind = "TypeError" /\ nativeCalls = <<>>
       /\ (~LacksDimensions(last.info) /\ obtained[last.obj] = NULL) =>
            last.ret.kind = "Error"
       /\ last.ret.kind \in {"TypeError", "Error", "instance"}
       /\ last.ret.kind = "instance" <=> terminal_[last.obj] # NULL
       /\ terminal_[last.obj] = NULL => allocated = {terminal_[o] : o \in Objects} \ {NULL}
  /\ \A o \in Objects :
       (phase[o] # "unborn" /\ obtained[o] = NULL) =>
         /\ terminal_[o] = NULL
         /\ frees[o] = 0
         /\ delivered[o] = <<>>
         /\ last.obj = o /\ last.op # "new" => nativeCalls = <<>>
         /\ last.obj = o /\ last.op \in Methods => last.ret = InvalidResult(last.op)

\* C6's case: a method called on an object whose constructor got null from
\* ghostty_vt_terminal_new (two good dimensions, no memory).
MethodAfterFailedAllocation ==
  /\ last.op = "dumpViewport"
  /\ phase[last.obj] = "alive"
  /\ obtained[last.obj] = NULL
  /\ allocated = {}
  /\ \E o \in Objects : o # last.obj /\ phase[o] = "unborn"

\* the bytes a Buffer or a String stands for
InputBytes(v) == IF IsBuffer(v) THEN v.s ELSE Utf8Value(v.s)

\* C7: split feeds.  Each feed of a Buffer or String on a live terminal makes
\* exactly one call of ghostty_vt_terminal_feed, with the terminal's handle
\* and all the bytes of the input in order; so what an object delivered to
\* the core is the concatenation of what it was fed, and two objects fed the
\* same bytes, however split over calls, delivered the same stream.
FeedDeliversEveryByte ==
  /\ \A o \in Objects : delivered[o] = fed[o]
  /\ \A p, q \in Objects : fed[p] = fed[q] => delivered[p] = delivered[q]
  /\ (/\ last.op = "feed" /\ last.was # NULL /\ Len(last.info) >= 1
      /\ IsBuffer(last.info[1]) \/ IsString(last.info[1]))
       => nativeCalls =
            <<NCall("ghostty_vt_terminal_feed", last.was,
                    InputBytes(last.info[1]), Len(InputBytes(last.info[1])),
                    last.ret.n)>>

\* C7's case: one object was fed <<65>> and then <<0>>, the other has the
\* same two bytes delivered.
SplitFeedDelivered ==
  /\ last.op = "feed"
  /\ last.obj = "t1"
  /\ last.info = <<Buf(<<0>>)>>
  /\ delivered["t1"] = <<65, 0>>
  /\ delivered["t2"] = <<65, 0>>

\* C8: cursorPosition reports valid = false only for a terminal torn down:
\* on a live handle it returns valid = true with the column and row the core
\* wrote, on a null handle valid = false with col = 0 and row = 0.
CursorValidIffLive ==
  last.op = "cursorPosition" =>
    /\ last.ret.kind = "object"
    /\ last.ret.valid <=> last.was # NULL
    /\ ~last.ret.valid => last.ret.col = 0 /\ last.ret.row = 0
    /\ last.was # NULL =>
         nativeCalls = <<NCall("ghostty_vt_terminal_cursor_position", last.was,
                               <<>>, last.ret.col, last.ret.row)>>

\* C8's case: a live terminal with its cursor at column 0.
CursorAtOriginOnLive ==
  /\ last.op = "cursorPosition"
  /\ last.was # NULL
  /\ last.ret.valid
  /\ last.ret.col = 0

\* no two objects hold one handle, and a handle held is allocated
HandlesAreOwn ==
  /\ \A p, q \in Objects :
       (p # q /\ terminal_[p] # NULL) => terminal_[p] # terminal_[q]
  /\ \A o \in Objects : terminal_[o] # NULL => terminal_[o] \in allocated

\* C9: terminal objects are isolated.  A handler run on one object (or
\* renderDemo, run on none) leaves the handle, the liveness and the stream of
\* every other object as they were; the native calls it makes that take a
\* handle take its own; the handles of two objects never coincide and a held
\* handle is never a released one, so freeing one object cannot send a
\* method of another down its null-handle branch: the method calls the core
\* or returns an argument status (2 or 3).
ObjectsAreIsolated ==
  [][ /\ \A o \in Objects :
           o # last'.obj =>
             /\ terminal_'[o] = terminal_[o]
             /\ phase'[o] = phase[o]
             /\ delivered'[o] = delivered[o]
             /\ frees'[o] = frees[o]
      /\ \A i \in 1 .. Len(nativeCalls') :
           (/\ last'.obj \in Objects
            /\ nativeCalls'[i].fn \notin {"ghostty_vt_terminal_new",
                                          "ghostty_vt_bytes_free"})
             => nativeCalls'[i].h = terminal_[last'.obj] /\ nativeCalls'[i].h # NULL
      /\ HandlesAreOwn'
      /\ (last'.op \in Methods /\ terminal_[last'.obj] # NULL)
           => \/ nativeCalls' # <<>>
              \/ last'.ret \in {RetNumber(2), RetNumber(3)} ]_vars

\* C9's case: a method answers on one object after the other was freed.
MethodBesideFreedObject ==
  /\ last.op = "cursorPosition"
  /\ last.obj = "t2"
  /\ last.ret.valid
  /\ frees["t1"] = 1
  /\ phase["t1"] = "alive"

\* C10: native resources are balanced.  No dump buffer is outstanding after a
\* handler; dumpViewport on a live terminal gives the buffer it received,
\* null or empty or not, to ghostty_vt_bytes_free once; renderDemo makes only
\* the call of ghostty_vt_terminal_new when that returns null, and otherwise
\* feeds, dumps, frees the buffer once and frees its terminal once; the
\* terminals allocated are those the objects hold.
NativeResourcesBalanced ==
  /\ buffers = 0
  /\ allocated = {terminal_[o] : o \in Objects} \ {NULL}
  /\ Cardinality(CallsOf("ghostty_vt_terminal_dump_viewport"))
       = Cardinality(CallsOf("ghostty_vt_bytes_free"))
  /\ \A i \in CallsOf("ghostty_vt_terminal_dump_viewport") :
       /\ i < Len(nativeCalls)
       /\ nativeCalls[i + 1] =
            NCall("ghostty_vt_bytes_free", NULL, nativeCalls[i].bytes,
                  nativeCalls[i].a, nativeCalls[i].b)
  /\ (last.op = "dumpViewport" /\ last.was # NULL) =>
       /\ Len(nativeCalls) = 2
       /\ nativeCalls[1].fn = "ghostty_vt_terminal_dump_viewport"
  /\ last.op = "renderDemo" =>
       /\ nativeCalls[1].fn = "ghostty_vt_terminal_new"
       /\ IF nativeCalls[1].h = NULL
            THEN Len(nativeCalls) = 1
            ELSE /\ Len(nativeCalls) = 5
                 /\ nativeCalls[2].fn = "ghostty_vt_terminal_feed"
                 /\ nativeCalls[3].fn = "ghostty_vt_terminal_dump_viewport"
                 /\ nativeCalls[5] =
                      NCall("ghostty_vt_terminal_free", nativeCalls[1].h,
                            <<>>, 0, 0)
                 /\ \A i \in 2 .. 3 : nativeCalls[i].h = nativeCalls[1].h

\* C10's case: dumpViewport was handed a null buffer by the core.
NullBufferDumped ==
  /\ last.op = "dumpViewport"
  /\ last.was # NULL
  /\ nativeCalls[1].a = 0
  /\ last.ret = RetString(<<>>)

==========================================================================
